---- MODULE Spec2Model ----
(***************************************************************************)
(* Model of py-polars/src/dataframe.rs: the PyDataFrame binding methods    *)
(* over the columnar table engine, and the groupby_apply callback bridge   *)
(* with its interpreter-lock protocol.                                     *)
(*                                                                         *)
(* A table is a sequence of columns; a column is a record                  *)
(*   [name |-> string, dtype |-> "Int" | "Bool", vals |-> sequence,        *)
(*    chunks |-> the lengths of its storage chunks].                       *)
(* Row and column indices are 0-based at the interface, as in the source,  *)
(* and converted to the 1-based positions of TLA+ sequences inside.        *)
(***************************************************************************)
EXTENDS Integers, Sequences, FiniteSets, TLC

VARIABLES
  df,        \* self.df of the receiver PyDataFrame
  other,     \* the df of a second PyDataFrame passed by reference
  call,      \* the last binding method called, with its scalar arguments
  result,    \* what that call handed back to the caller
  gil,       \* the holder of the interpreter lock: {} or one [thread, owner]
  frame,     \* per nesting depth, the groupby_apply call in progress
  act        \* per nesting depth and group, the closure's invocation

tvars == <<df, other, call, result>>
avars == <<gil, frame, act>>
vars == <<df, other, call, result, gil, frame, act>>

----------------------------------------------------------------------------
(* Bounds of the model *)

MaxHeight == 2
MaxWidth == 2

Names == {"a", "b"}
Vals == {0, 1}
\* the missing value of a cell, outside Vals
Null == -1
DTypes == {"Int", "Bool"}

----------------------------------------------------------------------------
(* Generic sequence helpers *)

SeqsUpTo(S, n) == UNION {[1..k -> S] : k \in 0..n}

RECURSIVE Concat(_)
Concat(ss) == IF ss = <<>> THEN <<>> ELSE Head(ss) \o Concat(Tail(ss))

RECURSIVE SumSeq(_)
SumSeq(s) == IF s = <<>> THEN 0 ELSE Head(s) + SumSeq(Tail(s))

Range(s) == {s[i] : i \in DOMAIN s}

\* a finite set of integers as the ascending sequence of its elements
RECURSIVE SortedSeq(_)
SortedSeq(S) ==
  IF S = {} THEN <<>>
  ELSE LET m == CHOOSE x \in S : \A y \in S : x <= y
       IN <<m>> \o SortedSeq(S \ {m})

----------------------------------------------------------------------------
(* Column and Table *)

\* a column stored in one chunk, and the chunk lengths of a column
Col(n, t, v) == [name |-> n, dtype |-> t, vals |-> v, chunks |-> <<Len(v)>>]

width(t) == Len(t)
height(t) == IF t = <<>> THEN 0 ELSE Len(t[1].vals)

\* Table invariant: all columns have the same element count
EqualHeights(t) == \A i, j \in DOMAIN t : Len(t[i].vals) = Len(t[j].vals)

column_names(t) == [i \in DOMAIN t |-> t[i].name]

\* position (1-based) of the first column called n, 0 when there is none
find_idx_by_name(t, n) ==
  IF \E i \in DOMAIN t : t[i].name = n
  THEN CHOOSE i \in DOMAIN t : t[i].name = n /\ \A j \in 1..(i-1) : t[j].name # n
  ELSE 0

\* rows of a column at 1-based positions ps, in the order of ps
TakeVals(v, ps) == [k \in 1..Len(ps) |-> v[ps[k]]]
TakeRows(t, ps) == [i \in DOMAIN t |-> [t[i] EXCEPT !.vals = TakeVals(t[i].vals, ps)]]

Ok(t) == [ok |-> TRUE, err |-> "", df |-> t]
Err(e) == [ok |-> FALSE, err |-> e, df |-> <<>>]

ValidChunks(t) == \A i \in DOMAIN t : SumSeq(t[i].chunks) = Len(t[i].vals)

\* a table gathered into fresh single-chunk columns
OneChunk(t) == [i \in DOMAIN t |-> Col(t[i].name, t[i].dtype, t[i].vals)]
OneChunkTakeRows(t, ps) == OneChunk(TakeRows(t, ps))

----------------------------------------------------------------------------
(* The table engine (polars::frame::DataFrame) that the binding calls.     *)
(* Each operator gives [ok, err, df]: a new table, or the typed error.     *)

\* DataFrame::new: the columns must have one element count
DataFrame_new(columns) ==
  IF EqualHeights(columns) THEN Ok(columns) ELSE Err("ShapeMismatch")

\* hstack: LengthMismatch when an added column's height is not the receiver's
DataFrame_hstack(t, columns) ==
  IF \E i \in DOMAIN columns : Len(columns[i].vals) # height(t)
  THEN Err("LengthMismatch")
  ELSE Ok(t \o columns)

SameSchema(t, o) ==
  /\ Len(t) = Len(o)
  /\ \A i \in DOMAIN t : t[i].name = o[i].name /\ t[i].dtype = o[i].dtype

\* vstack: SchemaMismatch when names, dtypes or order differ; the rows of o are
\* appended as further chunks
DataFrame_vstack(t, o) ==
  IF ~SameSchema(t, o) THEN Err("SchemaMismatch")
  ELSE Ok([i \in DOMAIN t |->
             [t[i] EXCEPT !.vals = t[i].vals \o o[i].vals,
                          !.chunks = t[i].chunks \o o[i].chunks]])

RemoveAt(t, p) == [i \in 1..(Len(t) - 1) |-> IF i < p THEN t[i] ELSE t[i + 1]]
InsertAt(t, p, c) ==
  [i \in 1..(Len(t) + 1) |-> IF i < p THEN t[i] ELSE IF i = p THEN c ELSE t[i - 1]]

\* drop: the table without the first column called n
DataFrame_drop(t, n) ==
  IF find_idx_by_name(t, n) = 0 THEN Err("ColumnNotFound")
  ELSE Ok(RemoveAt(t, find_idx_by_name(t, n)))

\* replace_at_idx (0-based index): the new column takes the place and the
\* name of the old one
DataFrame_replace_at_idx(t, index, c) ==
  IF index >= width(t) THEN Err("IndexOutOfBounds")
  ELSE IF Len(c.vals) # height(t) THEN Err("LengthMismatch")
  ELSE Ok([t EXCEPT ![index + 1] = [c EXCEPT !.name = t[index + 1].name]])

DataFrame_replace(t, n, c) ==
  IF find_idx_by_name(t, n) = 0 THEN Err("ColumnNotFound")
  ELSE DataFrame_replace_at_idx(t, find_idx_by_name(t, n) - 1, c)

\* insert_at_idx (0-based index)
DataFrame_insert_at_idx(t, index, c) ==
  IF index > width(t) THEN Err("IndexOutOfBounds")
  ELSE IF Len(c.vals) # height(t) THEN Err("LengthMismatch")
  ELSE Ok(InsertAt(t, index + 1, c))

\* stable order of the positions of v: ascending or descending by value, equal
\* values in their original order, nulls last in both directions
Before(v, i, j, reverse) ==
  IF v[i] = v[j] THEN i < j
  ELSE IF v[i] = Null THEN FALSE
  ELSE IF v[j] = Null THEN TRUE
  ELSE IF reverse THEN v[i] > v[j] ELSE v[i] < v[j]

RECURSIVE SortPositions(_, _, _)
SortPositions(v, S, reverse) ==
  IF S = {} THEN <<>>
  ELSE LET m == CHOOSE i \in S : \A j \in S \ {i} : Before(v, i, j, reverse)
       IN <<m>> \o SortPositions(v, S \ {m}, reverse)

DataFrame_sort(t, by, reverse) ==
  IF find_idx_by_name(t, by) = 0 THEN Err("ColumnNotFound")
  ELSE LET v == t[find_idx_by_name(t, by)].vals
       IN Ok(OneChunkTakeRows(t, SortPositions(v, DOMAIN v, reverse)))

DataFrame_set_column_names(t, names) ==
  IF Len(names) # width(t) THEN Err("ShapeMismatch")
  ELSE Ok([i \in DOMAIN t |-> [t[i] EXCEPT !.name = names[i]]])

\* the in-place variants: the receiver after the call, unchanged on failure
Mut(r, t) == IF r.ok THEN r ELSE [r EXCEPT !.df = t]

DataFrame_hstack_mut(t, columns) == Mut(DataFrame_hstack(t, columns), t)
DataFrame_vstack_mut(t, o) == Mut(DataFrame_vstack(t, o), t)
DataFrame_replace_mut(t, n, c) == Mut(DataFrame_replace(t, n, c), t)
DataFrame_replace_at_idx_mut(t, index, c) == Mut(DataFrame_replace_at_idx(t, index, c), t)
DataFrame_insert_at_idx_mut(t, index, c) == Mut(DataFrame_insert_at_idx(t, index, c), t)
DataFrame_sort_in_place(t, by, reverse) == Mut(DataFrame_sort(t, by, reverse), t)
DataFrame_set_column_names_mut(t, names) == Mut(DataFrame_set_column_names(t, names), t)

\* drop_in_place also hands back the removed column
DataFrame_drop_in_place(t, n) ==
  IF find_idx_by_name(t, n) = 0
  THEN [ok |-> FALSE, err |-> "ColumnNotFound", df |-> t, col |-> <<>>]
  ELSE [ok |-> TRUE, err |-> "", df |-> RemoveAt(t, find_idx_by_name(t, n)),
        col |-> t[find_idx_by_name(t, n)]]

\* select: ColumnNotFound when a name is absent; the input's column order,
\* restricted to the requested names
DataFrame_select(t, selection) ==
  IF \E k \in DOMAIN selection : find_idx_by_name(t, selection[k]) = 0
  THEN Err("ColumnNotFound")
  ELSE Ok(TakeVals(t, SortedSeq({find_idx_by_name(t, selection[k]) : k \in DOMAIN selection})))

\* filter with a boolean column (1 is true): the rows where the mask is true,
\* in their order
DataFrame_filter(t, mask) ==
  IF Len(mask.vals) # height(t) THEN Err("LengthMismatch")
  ELSE Ok(OneChunkTakeRows(t, SortedSeq({i \in DOMAIN mask.vals : mask.vals[i] = 1})))

\* slice(offset, length)
DataFrame_slice(t, offset, length) ==
  IF offset + length > height(t) THEN Err("IndexOutOfBounds")
  ELSE Ok(OneChunkTakeRows(t, [k \in 1..length |-> offset + k]))

Min(a, b) == IF a <= b THEN a ELSE b

\* Option<T>: None, or Some(x)
None == <<>>
Some(x) == <<x>>

\* head and tail: length None is the engine's default, the whole of any table
\* this small
DataFrame_head(t, length) ==
  LET n == IF length = None THEN height(t) ELSE Min(length[1], height(t))
  IN OneChunkTakeRows(t, [k \in 1..n |-> k])
DataFrame_tail(t, length) ==
  LET n == IF length = None THEN height(t) ELSE Min(length[1], height(t))
  IN OneChunkTakeRows(t, [k \in 1..n |-> height(t) - n + k])

\* agg_chunks: the same values in one chunk per column
DataFrame_agg_chunks(t) == OneChunk(t)

\* drop_nulls: the rows with no null in the subset (None: in any column)
DataFrame_drop_nulls(t, subset) ==
  IF subset # None /\ \E k \in DOMAIN subset[1] : find_idx_by_name(t, subset[1][k]) = 0
  THEN Err("ColumnNotFound")
  ELSE LET cols == IF subset = None THEN DOMAIN t
                   ELSE {find_idx_by_name(t, subset[1][k]) : k \in DOMAIN subset[1]}
       IN Ok(OneChunkTakeRows(t,
               SortedSeq({i \in 1..height(t) : \A c \in cols : t[c].vals[i] # Null})))

\* take at 0-based indices, in the order of the indices; an index out of range
\* is fatal: take has no error to return
DataFrame_take(t, indices) ==
  IF \E k \in DOMAIN indices : indices[k] >= height(t)
  THEN [fatal |-> TRUE, df |-> <<>>]
  ELSE [fatal |-> FALSE, df |-> OneChunkTakeRows(t, [k \in DOMAIN indices |-> indices[k] + 1])]

----------------------------------------------------------------------------
(* Rows, uniqueness *)

Row(t, i) == [c \in DOMAIN t |-> t[c].vals[i]]

\* is_unique: true (1) for the rows that no other row equals
DataFrame_is_unique(t) ==
  Col("is_unique", "Bool",
      [i \in 1..height(t) |->
         IF \E j \in 1..height(t) : j # i /\ Row(t, j) = Row(t, i) THEN 0 ELSE 1])

----------------------------------------------------------------------------
(* Grouping engine: a GroupBy is [df, by, keys, groups, selection]; groups   *)
(* is the sequence of groups in the order their keys are first met, each     *)
(* the ascending positions of its rows.                                      *)

KeyAt(t, cols, i) == [k \in DOMAIN cols |-> t[cols[k]].vals[i]]

\* groups of the rows of t by the key function key[i], first-seen order
GroupsOf(n, key) ==
  LET first == SortedSeq({i \in 1..n : \A j \in 1..(i - 1) : key[j] # key[i]})
  IN [g \in DOMAIN first |-> SortedSeq({i \in 1..n : key[i] = key[first[g]]})]

DataFrame_groupby(t, by) ==
  IF \E k \in DOMAIN by : find_idx_by_name(t, by[k]) = 0
  THEN [ok |-> FALSE, err |-> "ColumnNotFound", gb |-> <<>>]
  ELSE LET cols == [k \in DOMAIN by |-> find_idx_by_name(t, by[k])]
           key == [i \in 1..height(t) |-> KeyAt(t, cols, i)]
       IN [ok |-> TRUE, err |-> "",
           gb |-> [df |-> t, keys |-> cols,
                   keyvals |-> [k \in DOMAIN cols |-> t[cols[k]].vals],
                   groups |-> GroupsOf(height(t), key),
                   selection |-> None]]

\* GroupBy::select: the columns to aggregate
GroupBy_select(gb, selection) == [gb EXCEPT !.selection = Some(selection)]

\* the positions of the columns a GroupBy aggregates: the selected ones, or
\* every column that is not a key
AggColumns(gb) ==
  IF gb.selection = None
  THEN SortedSeq(DOMAIN gb.df \ Range(gb.keys))
  ELSE [k \in DOMAIN gb.selection[1] |-> find_idx_by_name(gb.df, gb.selection[1][k])]

----------------------------------------------------------------------------
(* Aggregation engine: reductions skip nulls; all-null (or empty) gives     *)
(* null.  Non-integer results are kept exact: a mean is the pair            *)
(* [num, den], std and var are kept as the reduction of their values.       *)

NonNull(v) == TakeVals(v, SortedSeq({i \in DOMAIN v : v[i] # Null}))

RECURSIVE MinSeq(_)
MinSeq(v) == IF Len(v) = 1 THEN v[1]
             ELSE IF v[1] <= MinSeq(Tail(v)) THEN v[1] ELSE MinSeq(Tail(v))
RECURSIVE MaxSeq(_)
MaxSeq(v) == IF Len(v) = 1 THEN v[1]
             ELSE IF v[1] >= MaxSeq(Tail(v)) THEN v[1] ELSE MaxSeq(Tail(v))

Sorted(v) == TakeVals(v, SortPositions(v, DOMAIN v, FALSE))

Reduce(agg, vals) ==
  LET v == NonNull(vals)
      n == Len(v)
  IN CASE agg = "count" -> Len(vals)
       [] agg = "agg_list" -> vals
       [] n = 0 -> Null
       [] agg = "min" -> MinSeq(v)
       [] agg = "max" -> MaxSeq(v)
       [] agg = "sum" -> SumSeq(v)
       [] agg = "first" -> vals[1]
       [] agg = "last" -> vals[Len(vals)]
       [] agg = "n_unique" -> Cardinality(Range(vals))
       [] agg = "mean" -> [num |-> SumSeq(v), den |-> n]
       [] agg = "median" ->
            IF n % 2 = 1 THEN [num |-> Sorted(v)[(n + 1) \div 2], den |-> 1]
            ELSE [num |-> Sorted(v)[n \div 2] + Sorted(v)[(n \div 2) + 1], den |-> 2]
       [] agg = "std" -> [fn |-> "std", of |-> Sorted(v)]
       [] agg = "var" -> [fn |-> "var", of |-> Sorted(v)]

AggDType(agg, dtype) ==
  CASE agg \in {"min", "max", "sum", "first", "last"} -> dtype
    [] agg \in {"count", "n_unique"} -> "Int"
    [] agg = "agg_list" -> "List"
    [] OTHER -> "Float"

AggName(name, agg) == name \o "_" \o agg

\* one output row per group: the key columns, then one column per aggregated
\* column holding the reduction of that column over the group's rows
GroupBy_agg(gb, agg) ==
  LET t == gb.df
      ng == Len(gb.groups)
      keycols == [k \in DOMAIN gb.keys |->
                    Col(t[gb.keys[k]].name, t[gb.keys[k]].dtype,
                        [g \in 1..ng |-> gb.keyvals[k][gb.groups[g][1]]])]
      cols == AggColumns(gb)
      aggcols == [k \in DOMAIN cols |->
                    Col(AggName(t[cols[k]].name, agg), AggDType(agg, t[cols[k]].dtype),
                        [g \in 1..ng |-> Reduce(agg, TakeVals(t[cols[k]].vals, gb.groups[g]))])]
  IN IF \E k \in DOMAIN cols : cols[k] = 0 THEN Err("ColumnNotFound")
     ELSE Ok(keycols \o aggcols)

\* GroupBy::groups: the key columns and the 0-based row indices of each group
GroupBy_groups(gb) ==
  LET t == gb.df
      ng == Len(gb.groups)
  IN Ok([k \in DOMAIN gb.keys |->
           Col(t[gb.keys[k]].name, t[gb.keys[k]].dtype,
               [g \in 1..ng |-> gb.keyvals[k][gb.groups[g][1]]])]
        \o <<Col("groups", "List",
                 [g \in 1..ng |-> [k \in DOMAIN gb.groups[g] |-> gb.groups[g][k] - 1]])>>)

----------------------------------------------------------------------------
(* Join engine *)

\* row correspondences <<i, j>> (0: no row on that side), left rows in order,
\* the matches of a left row in right-row order, then the unmatched right rows
JoinPairs(lkey, rkey, how) ==
  LET Matches(i) == SortedSeq({j \in DOMAIN rkey : rkey[j] = lkey[i]})
      left == Concat([i \in DOMAIN lkey |->
                IF Matches(i) = <<>>
                THEN (IF how = "Inner" THEN <<>> ELSE << <<i, 0>> >>)
                ELSE [k \in DOMAIN Matches(i) |-> <<i, Matches(i)[k]>>]])
      unmatched == SortedSeq({j \in DOMAIN rkey : \A i \in DOMAIN lkey : lkey[i] # rkey[j]})
  IN IF how = "Outer" THEN left \o [k \in DOMAIN unmatched |-> <<0, unmatched[k]>>]
     ELSE left

DataFrame_join(l, r, left_on, right_on, how) ==
  IF \/ \E k \in DOMAIN left_on : find_idx_by_name(l, left_on[k]) = 0
     \/ \E k \in DOMAIN right_on : find_idx_by_name(r, right_on[k]) = 0
  THEN Err("ColumnNotFound")
  ELSE
    LET lc == [k \in DOMAIN left_on |-> find_idx_by_name(l, left_on[k])]
        rc == [k \in DOMAIN right_on |-> find_idx_by_name(r, right_on[k])]
        lkey == [i \in 1..height(l) |-> KeyAt(l, lc, i)]
        rkey == [j \in 1..height(r) |-> KeyAt(r, rc, j)]
        pairs == JoinPairs(lkey, rkey, how)
        \* a left key column of an unmatched right row takes the right key
        LeftCell(c, pr) ==
          IF pr[1] # 0 THEN l[c].vals[pr[1]]
          ELSE IF \E k \in DOMAIN lc : lc[k] = c
               THEN r[rc[CHOOSE k \in DOMAIN lc : lc[k] = c]].vals[pr[2]]
               ELSE Null
        RightCell(c, pr) == IF pr[2] # 0 THEN r[c].vals[pr[2]] ELSE Null
        rest == SortedSeq(DOMAIN r \ Range(rc))
        RightName(c) ==
          IF find_idx_by_name(l, r[c].name) # 0 THEN r[c].name \o "_right" ELSE r[c].name
    IN IF Len(left_on) # Len(right_on) THEN Err("ShapeMismatch")
       ELSE IF \E k \in DOMAIN lc : l[lc[k]].dtype # r[rc[k]].dtype THEN Err("TypeMismatch")
       ELSE Ok([c \in DOMAIN l |->
                  Col(l[c].name, l[c].dtype, [p \in DOMAIN pairs |-> LeftCell(c, pairs[p])])]
               \o [k \in DOMAIN rest |->
                  Col(RightName(rest[k]), r[rest[k]].dtype,
                      [p \in DOMAIN pairs |-> RightCell(rest[k], pairs[p])])])

----------------------------------------------------------------------------
(* Reshape engine *)

\* the distinct values of v in the order they are first met
Distinct(v) ==
  TakeVals(v, SortedSeq({i \in DOMAIN v : \A j \in 1..(i - 1) : v[j] # v[i]}))

\* pivot: per group and distinct pivot value, the reduction of the values
\* column over the group's rows with that pivot value; null when there is none
GroupBy_pivot_agg(gb, pivot_column, values_column, agg) ==
  LET t == gb.df
      pc == find_idx_by_name(t, pivot_column)
      vc == find_idx_by_name(t, values_column)
      pv == Distinct(t[pc].vals)
      ng == Len(gb.groups)
      Cell(g, v) ==
        LET rows == SortedSeq({i \in Range(gb.groups[g]) : t[pc].vals[i] = v})
        IN IF rows = <<>> THEN Null ELSE Reduce(agg, TakeVals(t[vc].vals, rows))
  IN IF pc = 0 \/ vc = 0 THEN Err("ColumnNotFound")
     ELSE Ok([k \in DOMAIN gb.keys |->
                Col(t[gb.keys[k]].name, t[gb.keys[k]].dtype,
                    [g \in 1..ng |-> gb.keyvals[k][gb.groups[g][1]]])]
             \o [k \in DOMAIN pv |->
                Col(ToString(pv[k]), AggDType(agg, t[vc].dtype),
                    [g \in 1..ng |-> Cell(g, pv[k])])])

\* SampleRule: [unit, n]; the seconds in a unit
SampleRule(unit, n) == [unit |-> unit, n |-> n]
UnitSeconds(unit) ==
  CASE unit = "Second" -> 1
    [] unit = "Minute" -> 60
    [] unit = "Hour" -> 3600
    [] unit = "Day" -> 86400

\* downsample: group the rows by the window of width n * unit their time (in
\* seconds) falls in; the key is the window's lower boundary
DataFrame_downsample(t, by, rule) ==
  IF find_idx_by_name(t, by) = 0
  THEN [ok |-> FALSE, err |-> "ColumnNotFound", gb |-> <<>>]
  ELSE LET c == find_idx_by_name(t, by)
           w == rule.n * UnitSeconds(rule.unit)
           bucket == [i \in 1..height(t) |-> (t[c].vals[i] \div w) * w]
       IN [ok |-> TRUE, err |-> "",
           gb |-> [df |-> t, keys |-> <<c>>, keyvals |-> <<bucket>>,
                   groups |-> GroupsOf(height(t), bucket),
                   selection |-> None]]

\* melt: per value column (in turn) and row, one output row of the id values,
\* the value column's name and its value
DataFrame_melt(t, id_vars, value_vars) ==
  IF \E k \in DOMAIN id_vars : find_idx_by_name(t, id_vars[k]) = 0 THEN Err("ColumnNotFound")
  ELSE IF \E k \in DOMAIN value_vars : find_idx_by_name(t, value_vars[k]) = 0
  THEN Err("ColumnNotFound")
  ELSE
    LET h == height(t)
        nv == Len(value_vars)
        ic == [k \in DOMAIN id_vars |-> find_idx_by_name(t, id_vars[k])]
        vc == [k \in DOMAIN value_vars |-> find_idx_by_name(t, value_vars[k])]
        \* output row q (1-based) comes from value column VarOf(q), row RowOf(q)
        VarOf(q) == ((q - 1) \div h) + 1
        RowOf(q) == ((q - 1) % h) + 1
        n == h * nv
    IN Ok([k \in DOMAIN ic |->
             Col(t[ic[k]].name, t[ic[k]].dtype, [q \in 1..n |-> t[ic[k]].vals[RowOf(q)]])]
          \o <<Col("variable", "Utf8", [q \in 1..n |-> t[vc[VarOf(q)]].name]),
               Col("value", IF nv = 0 THEN "Int" ELSE t[vc[1]].dtype,
                   [q \in 1..n |-> t[vc[VarOf(q)]].vals[RowOf(q)]])>>)

\* fill_none: the nulls of every column replaced following the strategy
FillColumn(v, strat) ==
  LET Prev(i) == {j \in 1..(i - 1) : v[j] # Null}
      Next(i) == {j \in (i + 1)..Len(v) : v[j] # Null}
      Fill(i) ==
        CASE strat = "Forward" ->
               IF Prev(i) = {} THEN Null ELSE v[CHOOSE j \in Prev(i) : \A k \in Prev(i) : k <= j]
          [] strat = "Backward" ->
               IF Next(i) = {} THEN Null ELSE v[CHOOSE j \in Next(i) : \A k \in Next(i) : j <= k]
          [] strat = "Min" -> Reduce("min", v)
          [] strat = "Max" -> Reduce("max", v)
          [] strat = "Mean" -> Reduce("mean", v)
  IN [i \in DOMAIN v |-> IF v[i] # Null THEN v[i] ELSE Fill(i)]

DataFrame_fill_none(t, strat) ==
  Ok([c \in DOMAIN t |-> Col(t[c].name, t[c].dtype, FillColumn(t[c].vals, strat))])

----------------------------------------------------------------------------
(* The binding methods of PyDataFrame.  Each gives                          *)
(*   [self, kind, err, val, steps]:                                         *)
(* self.df after the call; kind "Ok" (val returned), "Err" (err raised to   *)
(* the caller as an exception value) or "Panic" (the thread unwinds, no     *)
(* PyResult is produced); steps, the sub-operations run, in order, each     *)
(* [name, ok]: a failing call stops at its failing step.                    *)

Unit == <<>>
Step(name, ok) == [name |-> name, ok |-> ok]
AllOk(names) == [i \in DOMAIN names |-> Step(names[i], TRUE)]
LastFailed(names) == [i \in DOMAIN names |-> Step(names[i], i < Len(names))]
PyOk(self, v, names) ==
  [self |-> self, kind |-> "Ok", err |-> "", val |-> v, steps |-> AllOk(names)]
PyErr(self, e, names) ==
  [self |-> self, kind |-> "Err", err |-> e, val |-> Unit, steps |-> LastFailed(names)]
PyPanic(self, e, names) ==
  [self |-> self, kind |-> "Panic", err |-> e, val |-> Unit, steps |-> LastFailed(names)]

\* self.df.op_mut(..).map_err(PyPolarsEr::from)?; Ok(())
InPlace(r, step) ==
  IF r.ok THEN PyOk(r.df, Unit, <<step>>) ELSE PyErr(r.df, r.err, <<step>>)

\* let df = self.df.op(..).map_err(PyPolarsEr::from)?; Ok(df.into())
Fresh(self, r, step) ==
  IF r.ok THEN PyOk(self, r.df, <<step>>) ELSE PyErr(self, r.err, <<step>>)

rechunk(self) == PyOk(self, DataFrame_agg_chunks(self), <<"agg_chunks">>)

\* hstack_mut pushing the columns without the height check
hstack_mut_unchecked(self, columns) == PyOk(self \o columns, Unit, <<"hstack_mut">>)
hstack_mut(self, columns) == InPlace(DataFrame_hstack_mut(self, columns), "hstack_mut")
hstack(self, columns) == Fresh(self, DataFrame_hstack(self, columns), "hstack")
vstack_mut(self, o) == InPlace(DataFrame_vstack_mut(self, o), "vstack_mut")
\* vstack stacking onto the receiver as vstack_mut does
vstack_mutating(self, o) ==
  LET r == DataFrame_vstack(self, o)
  IN IF r.ok THEN PyOk(r.df, r.df, <<"vstack">>) ELSE PyErr(self, r.err, <<"vstack">>)
vstack(self, o) == Fresh(self, DataFrame_vstack(self, o), "vstack")

drop_in_place(self, name) ==
  LET r == DataFrame_drop_in_place(self, name)
  IN IF r.ok THEN PyOk(r.df, r.col, <<"drop_in_place">>)
     ELSE PyErr(r.df, r.err, <<"drop_in_place">>)

drop_nulls(self, subset) == Fresh(self, DataFrame_drop_nulls(self, subset), "drop_nulls")
drop(self, name) == Fresh(self, DataFrame_drop(self, name), "drop")
select(self, selection) == Fresh(self, DataFrame_select(self, selection), "select")

\* filter handing back the receiver's rows whatever the mask
filter_unfiltered(self, mask) ==
  IF mask.dtype = "Bool" THEN PyOk(self, self, <<"filter">>)
  ELSE PyErr(self, "RuntimeError: Expected a boolean mask", <<"bool">>)
filter(self, mask) ==
  IF mask.dtype = "Bool" THEN Fresh(self, DataFrame_filter(self, mask), "filter")
  ELSE PyErr(self, "RuntimeError: Expected a boolean mask", <<"bool">>)

take(self, indices) ==
  LET r == DataFrame_take(self, indices)
  IN IF r.fatal THEN PyPanic(self, "IndexOutOfBounds", <<"take">>)
     ELSE PyOk(self, r.df, <<"take">>)

take_with_series(self, indices) ==
  IF indices.dtype # "Int" THEN PyErr(self, "TypeMismatch", <<"u32">>)
  ELSE LET r == DataFrame_take(self, indices.vals)
       IN IF r.fatal THEN PyPanic(self, "IndexOutOfBounds", <<"u32", "take">>)
          ELSE PyOk(self, r.df, <<"u32", "take">>)

sort(self, by_column, reverse) == Fresh(self, DataFrame_sort(self, by_column, reverse), "sort")
sort_in_place(self, by_column, reverse) ==
  InPlace(DataFrame_sort_in_place(self, by_column, reverse), "sort_in_place")
replace(self, column, new_col) == InPlace(DataFrame_replace_mut(self, column, new_col), "replace")
replace_at_idx(self, index, new_col) ==
  InPlace(DataFrame_replace_at_idx_mut(self, index, new_col), "replace_at_idx")
insert_at_idx(self, index, new_col) ==
  InPlace(DataFrame_insert_at_idx_mut(self, index, new_col), "insert_at_idx")
set_column_names(self, names) ==
  InPlace(DataFrame_set_column_names_mut(self, names), "set_column_names")

slice(self, offset, length) == Fresh(self, DataFrame_slice(self, offset, length), "slice")
head(self, length) == PyOk(self, DataFrame_head(self, length), <<"head">>)
tail(self, length) == PyOk(self, DataFrame_tail(self, length), <<"tail">>)
clone(self) == PyOk(self, self, <<"clone">>)
melt(self, id_vars, value_vars) == Fresh(self, DataFrame_melt(self, id_vars, value_vars), "melt")

\* &df + &series: the column named as the series gets the element-wise sum
DataFrame_add(t, s) ==
  LET i == find_idx_by_name(t, s.name)
  IN IF i = 0 THEN Err("ColumnNotFound")
     ELSE IF t[i].dtype # s.dtype THEN Err("TypeMismatch")
     ELSE IF Len(s.vals) # height(t) THEN Err("ShapeMismatch")
     ELSE Ok([t EXCEPT ![i] =
                Col(t[i].name, t[i].dtype,
                    [k \in 1..height(t) |->
                       IF t[i].vals[k] = Null \/ s.vals[k] = Null THEN Null
                       ELSE t[i].vals[k] + s.vals[k]])])

add(self, s) == Fresh(self, DataFrame_add(self, s), "add")

is_unique(self) == PyOk(self, DataFrame_is_unique(self), <<"is_unique">>)
is_duplicated(self) == PyOk(self, DataFrame_is_unique(self), <<"is_unique">>)

\* the closed enumerations of the string-valued mode parameters
Strategies == {"backward", "forward", "min", "max", "mean"}
Hows == {"left", "inner", "outer"}
Rules == {"second", "minute", "day", "hour"}
GroupByAggs == {"min", "max", "mean", "first", "last", "sum", "count", "n_unique",
                "median", "agg_list", "groups", "std", "var"}
PivotAggs == {"first", "min", "max", "mean", "median", "sum", "count"}

Capitalised(m) ==
  CASE m = "backward" -> "Backward" [] m = "forward" -> "Forward"
    [] m = "min" -> "Min" [] m = "max" -> "Max" [] m = "mean" -> "Mean"
    [] m = "left" -> "Left" [] m = "inner" -> "Inner" [] m = "outer" -> "Outer"
    [] m = "second" -> "Second" [] m = "minute" -> "Minute"
    [] m = "day" -> "Day" [] m = "hour" -> "Hour"

fill_none(self, strategy) ==
  IF strategy \notin Strategies
  THEN PyErr(self, "Other: Strategy not supported", <<"strategy">>)
  ELSE LET r == Fresh(self, DataFrame_fill_none(self, Capitalised(strategy)), "fill_none")
       IN [r EXCEPT !.steps = <<Step("strategy", TRUE)>> \o @]

join(self, o, left_on, right_on, how) ==
  IF how \notin Hows THEN PyPanic(self, "not supported", <<"how">>)
  ELSE LET r == Fresh(self, DataFrame_join(self, o, left_on, right_on, Capitalised(how)), "join")
       IN [r EXCEPT !.steps = <<Step("how", TRUE)>> \o @]

finish_groupby(gb, agg) ==
  IF agg = "groups" THEN GroupBy_groups(gb)
  ELSE IF agg \in GroupByAggs THEN GroupBy_agg(gb, agg)
  ELSE Err("Other: agg fn does not exists")

\* downsample returning the aggregate as the grouping ordered it
downsample_unsorted(self, by, rule, n, agg) ==
  IF rule \notin Rules THEN PyErr(self, "Other: rule not supported", <<"rule">>)
  ELSE
    LET gb == DataFrame_downsample(self, by, SampleRule(Capitalised(rule), n))
        r == finish_groupby(gb.gb, agg)
    IN IF ~gb.ok THEN PyErr(self, gb.err, <<"rule", "downsample">>)
       ELSE IF ~r.ok THEN PyErr(self, r.err, <<"rule", "downsample", "finish_groupby">>)
       ELSE PyOk(self, r.df, <<"rule", "downsample", "finish_groupby", "sort">>)
downsample(self, by, rule, n, agg) ==
  IF rule \notin Rules THEN PyErr(self, "Other: rule not supported", <<"rule">>)
  ELSE
    LET gb == DataFrame_downsample(self, by, SampleRule(Capitalised(rule), n))
        r == finish_groupby(gb.gb, agg)
        out == DataFrame_sort(r.df, by, FALSE)
    IN IF ~gb.ok THEN PyErr(self, gb.err, <<"rule", "downsample">>)
       ELSE IF ~r.ok THEN PyErr(self, r.err, <<"rule", "downsample", "finish_groupby">>)
       ELSE IF ~out.ok
            THEN PyErr(self, out.err, <<"rule", "downsample", "finish_groupby", "sort">>)
       ELSE PyOk(self, out.df, <<"rule", "downsample", "finish_groupby", "sort">>)

groupby(self, by, sel, agg) ==
  LET gb == DataFrame_groupby(self, by)
      selection == IF sel = None THEN gb.gb ELSE GroupBy_select(gb.gb, sel[1])
      r == finish_groupby(selection, agg)
  IN IF ~gb.ok THEN PyErr(self, gb.err, <<"groupby">>)
     ELSE IF ~r.ok THEN PyErr(self, r.err, <<"groupby", "finish_groupby">>)
     ELSE PyOk(self, r.df, <<"groupby", "finish_groupby">>)

pivot(self, by, pivot_column, values_column, agg) ==
  LET gb == DataFrame_groupby(self, by)
      r == IF agg \in PivotAggs
           THEN GroupBy_pivot_agg(gb.gb, pivot_column, values_column, agg)
           ELSE Err("Other: agg fn does not exists")
  IN IF ~gb.ok THEN PyErr(self, gb.err, <<"groupby">>)
     ELSE IF agg \notin PivotAggs THEN PyErr(self, r.err, <<"groupby", "agg">>)
     ELSE IF ~r.ok THEN PyErr(self, r.err, <<"groupby", "agg", "pivot">>)
     ELSE PyOk(self, r.df, <<"groupby", "agg", "pivot">>)

----------------------------------------------------------------------------
(* Calls of the binding methods on the receiver.  One action per method;    *)
(* the arguments are drawn from small sets that include the failing cases   *)
(* (absent names, wrong heights, indices out of range, unknown modes).      *)

LookupNames == Names \cup {"z"}
\* the columns handed to the column-adding and -replacing methods: of every
\* height up to MaxHeight, holding 0, 1, 0, ..
Alternating(h) == [i \in 1..h |-> (i + 1) % 2]
InputVals == {Alternating(h) : h \in 0..MaxHeight}
InputCols == {Col(n, "Int", v) : n \in Names, v \in InputVals}
\* masks: every boolean column up to MaxHeight, and an integer column
InputMasks == {Col("s", "Bool", v) : v \in SeqsUpTo(Vals, MaxHeight)}
                \cup {Col("s", "Int", <<1>>)}
\* the columns tried on table t: those of its height, and one of another height
ColsFor(t) ==
  {c \in InputCols : \/ Len(c.vals) = height(t)
                     \/ c = Col("a", "Int", Alternating((height(t) + 1) % (MaxHeight + 1)))}
InputIndices == SeqsUpTo(0..MaxHeight, 2)
Modes(enum) == enum \cup {"bogus"}
\* the aggregation names the calls try: a few of the enumeration, and unknown ones
TriedAggs == {"first", "count", "bogus"}
TriedRules == {"second", "bogus"}
\* column names the composite operators are tried with: one present in most
\* tables, one absent from all
KeyNames == {"a", "z"}
ValueNames == {"b", "z"}

InitTables == {<<>>} \cup {<<c>> : c \in InputCols}
OtherTables == {<<Col("a", t, <<0>>)>> : t \in DTypes}

NoCall == [op |-> "new", arg |-> <<>>]
NoResult == [kind |-> "Ok", err |-> "", val |-> Unit, steps |-> <<>>]

\* the call op(arg) on the receiver gave r
Do(op, arg, rr) == call = NoCall /\ \E r \in {rr} :
  /\ df' = r.self
  /\ call' = [op |-> op, arg |-> arg]
  /\ result' = [kind |-> r.kind, err |-> r.err, val |-> r.val, steps |-> r.steps]
  /\ UNCHANGED <<other, gil, frame, act>>

Call_rechunk == Do("rechunk", <<>>, rechunk(df))

Call_hstack_mut ==
  \E c \in ColsFor(df) :
    /\ Len(c.vals) = height(df) => width(df) < MaxWidth
    /\ Do("hstack_mut", <<c>>, hstack_mut(df, <<c>>))

Call_hstack == \E c \in ColsFor(df) : Do("hstack", <<c>>, hstack(df, <<c>>))

Call_vstack_mut ==
  /\ SameSchema(df, other) => height(df) + height(other) <= MaxHeight
  /\ Do("vstack_mut", <<>>, vstack_mut(df, other))

Call_vstack == Do("vstack", <<>>, vstack(df, other))

Call_drop_in_place == \E n \in LookupNames : Do("drop_in_place", <<n>>, drop_in_place(df, n))
Call_drop == \E n \in LookupNames : Do("drop", <<n>>, drop(df, n))

Call_drop_nulls ==
  \E subset \in {None} \cup {Some(<<n>>) : n \in LookupNames} :
    Do("drop_nulls", <<subset>>, drop_nulls(df, subset))

Call_select == \E n \in LookupNames : Do("select", <<n>>, select(df, <<n>>))
Call_filter == \E m \in InputMasks : Do("filter", <<m>>, filter(df, m))
Call_take == \E idx \in InputIndices : Do("take", <<idx>>, take(df, idx))

Call_take_with_series ==
  \E t \in DTypes, idx \in SeqsUpTo(0..MaxHeight, 1) :
    Do("take_with_series", <<t, idx>>, take_with_series(df, Col("s", t, idx)))

Call_sort ==
  \E n \in LookupNames, reverse \in BOOLEAN : Do("sort", <<n, reverse>>, sort(df, n, reverse))

Call_sort_in_place ==
  \E n \in LookupNames, reverse \in BOOLEAN :
    Do("sort_in_place", <<n, reverse>>, sort_in_place(df, n, reverse))

Call_replace ==
  \E n \in LookupNames, c \in {x \in ColsFor(df) : x.name = "a"} :
    Do("replace", <<n, c>>, replace(df, n, c))

Call_replace_at_idx ==
  \E index \in 0..MaxWidth, c \in {x \in ColsFor(df) : x.name = "a"} :
    Do("replace_at_idx", <<index, c>>, replace_at_idx(df, index, c))

Call_insert_at_idx ==
  \E index \in {0, width(df), width(df) + 1}, c \in ColsFor(df) :
    /\ (index <= width(df) /\ Len(c.vals) = height(df)) => width(df) < MaxWidth
    /\ Do("insert_at_idx", <<index, c>>, insert_at_idx(df, index, c))

Call_set_column_names ==
  \E names \in [1..width(df) -> Names] \cup {<<>>} :
    Do("set_column_names", <<names>>, set_column_names(df, names))

Call_slice ==
  \E offset \in 0..MaxHeight, length \in 0..MaxHeight :
    Do("slice", <<offset, length>>, slice(df, offset, length))

Call_head == \E n \in {None} \cup {Some(k) : k \in 0..MaxHeight} : Do("head", <<n>>, head(df, n))
Call_tail == \E n \in {None} \cup {Some(k) : k \in 0..MaxHeight} : Do("tail", <<n>>, tail(df, n))
Call_clone == Do("clone", <<>>, clone(df))

Call_melt ==
  \E id \in KeyNames, v \in ValueNames : Do("melt", <<id, v>>, melt(df, <<id>>, <<v>>))

Call_add == \E c \in ColsFor(df) : Do("add", <<c>>, add(df, c))

Call_is_unique == Do("is_unique", <<>>, is_unique(df))
Call_is_duplicated == Do("is_duplicated", <<>>, is_duplicated(df))

Call_fill_none ==
  \E strategy \in Modes(Strategies) : Do("fill_none", <<strategy>>, fill_none(df, strategy))

Call_join ==
  \E l \in KeyNames, r \in KeyNames, how \in Modes(Hows) :
    Do("join", <<l, r, how>>, join(df, other, <<l>>, <<r>>, how))

Call_downsample ==
  \E by \in KeyNames, rule \in TriedRules, n \in 1..2, agg \in TriedAggs :
    Do("downsample", <<by, rule, n, agg>>, downsample(df, by, rule, n, agg))

Call_groupby ==
  \E by \in KeyNames, sel \in {None, Some(<<"b">>)}, agg \in TriedAggs :
    Do("groupby", <<by, sel, agg>>, groupby(df, <<by>>, sel, agg))

Call_pivot ==
  \E by \in KeyNames, pc \in ValueNames, vc \in ValueNames, agg \in TriedAggs :
    Do("pivot", <<by, pc, vc, agg>>, pivot(df, <<by>>, pc, vc, agg))

----------------------------------------------------------------------------
(* The callback bridge: groupby_apply.                                      *)
(*                                                                          *)
(* The caller (a Python thread holding the interpreter lock) groups the     *)
(* table, releases the lock (allow_threads) and lets the engine run the     *)
(* closure `function` once per group on the worker threads of the pool;     *)
(* each run of the closure takes the lock, calls the lambda f, and drops    *)
(* the lock when it returns or unwinds.  f may itself call groupby_apply    *)
(* on the table it was given: that call is the frame one level deeper.      *)

NumWorkers == 2
MaxDepth == 1

Frames == 0..MaxDepth
Workers == {"w" \o ToString(i) : i \in 1..NumWorkers}
MainThread == "main"

\* the interpreter lock is free ({}) or held by a thread on behalf of an
\* owner: <<>> is the Python code that made the top-level call, <<d, g>> the
\* closure run of group g in frame d
Holder(th, owner) == [thread |-> th, owner |-> owner]
HeldBy(g, th) == \E h \in g : h.thread = th

\* Python::acquire_gil(): blocks while another thread holds the lock; a
\* thread that holds it already just nests
\* a lock that any thread may take while another holds it
acquire_gil_ready_always(g, th) == TRUE
acquire_gil_ready(g, th) == g = {} \/ HeldBy(g, th)
acquire_gil(g, th, owner) == IF HeldBy(g, th) THEN g ELSE {Holder(th, owner)}

\* drop of the GILGuard: a nested guard leaves the lock held
\* the closure's guard outliving the closure: the lock stays taken
drop_gil_leak(g, nested) == g
drop_gil(g, nested) == IF nested THEN g ELSE {}

\* py.allow_threads(..): the thread gives up the lock while the engine runs
\* the engine called with the lock still held
allow_threads_keeps(g, th) == g
allow_threads(g, th) == {h \in g : h.thread # th}

IdleFrame ==
  [phase |-> "idle", caller |-> MainThread, parent |-> <<>>, by |-> "",
   tbl |-> <<>>, groups |-> <<>>, log |-> <<>>]
NewFrame(th, parent, by, t, groups) ==
  [phase |-> "released", caller |-> th, parent |-> parent, by |-> by,
   tbl |-> t, groups |-> groups, log |-> <<Step("groupby", TRUE)>>]

\* a closure run: pc is todo, acquire (waiting for the lock), in_f (the lambda
\* runs), nested (the lambda is inside its own groupby_apply), done, panicked
\* or skipped
Todo ==
  [pc |-> "todo", th |-> "", nested |-> FALSE, calls |-> 0, arg |-> <<>>,
   fout |-> <<>>, ret |-> <<>>, msg |-> ""]
Active(a) == a.pc \in {"acquire", "in_f", "nested"}
Terminal(a) == a.pc \in {"done", "panicked", "skipped"}

Running == [kind |-> "Running", err |-> "", val |-> Unit, steps |-> <<>>]

\* GroupBy::apply hands the closure the rows of one group as a table
GroupTable(t, rows) == OneChunkTakeRows(t, rows)

\* what the lambda may hand back for the table it was given: the table itself,
\* its first row, or only its last column (another schema)
FOuts(arg) ==
  {arg, DataFrame_head(arg, Some(1)), TakeVals(arg, <<Len(arg)>>)}

\* the closure's result: the DataFrame unpacked from the lambda's return value
\* the closure handing back the table it was given, not the lambda's
function_result_arg(arg, fout) == arg
function_result(arg, fout) == fout

\* the engine stacks the closures' results in group order
RECURSIVE Accumulate(_, _)
Accumulate(acc, rets) ==
  IF rets = <<>> \/ ~acc.ok THEN acc
  ELSE Accumulate(DataFrame_vstack(acc.df, Head(rets)), Tail(rets))
GroupBy_apply_collect(rets) ==
  IF rets = <<>> THEN Ok(<<>>) ELSE Accumulate(Ok(Head(rets)), Tail(rets))

\* a worker may run a closure of frame d when it runs nothing, or when it is
\* the thread that called frame d's groupby_apply and waits for it
Busy(th) == \E d \in Frames : \E g \in DOMAIN act[d] : act[d][g].th = th /\ Active(act[d][g])
WaitsFor(th, d) ==
  /\ frame[d].caller = th
  /\ ~\E e \in d..MaxDepth : \E g \in DOMAIN act[e] : act[e][g].th = th /\ Active(act[e][g])
CanRun(th, d) == th \in Workers /\ (~Busy(th) \/ WaitsFor(th, d))

\* groupby_apply called by Python code on the main thread: lines 574, 602-604
Call_groupby_apply ==
  \E by \in KeyNames : \E gb \in {DataFrame_groupby(df, <<by>>)} :
    /\ call = NoCall
    /\ frame[0].phase = "idle"
    /\ gil = {Holder(MainThread, <<>>)}
    /\ call' = [op |-> "groupby_apply", arg |-> <<by>>]
    /\ IF ~gb.ok
       THEN /\ result' = [kind |-> "Err", err |-> gb.err, val |-> Unit,
                          steps |-> LastFailed(<<"groupby">>)]
            /\ UNCHANGED <<gil, frame, act>>
       ELSE /\ result' = Running
            /\ frame' = [frame EXCEPT ![0] = NewFrame(MainThread, <<>>, by, df, gb.gb.groups)]
            /\ act' = [act EXCEPT ![0] = [g \in DOMAIN gb.gb.groups |-> Todo]]
            /\ gil' = allow_threads(acquire_gil(gil, MainThread, <<>>), MainThread)
    /\ UNCHANGED <<df, other>>

\* the lambda of group g in frame d calls groupby_apply on the table it was
\* given, on its own thread
FReenter(d, g) ==
  /\ d < MaxDepth
  /\ g \in DOMAIN act[d]
  /\ act[d][g].pc = "in_f"
  /\ frame[d + 1].phase = "idle"
  /\ \E gb \in {DataFrame_groupby(act[d][g].arg, <<frame[d].by>>)} :
       /\ gb.ok
       /\ frame' = [frame EXCEPT ![d + 1] =
                      NewFrame(act[d][g].th, <<d, g>>, frame[d].by, act[d][g].arg, gb.gb.groups)]
       /\ act' = [act EXCEPT ![d][g].pc = "nested",
                             ![d + 1] = [k \in DOMAIN gb.gb.groups |-> Todo]]
       /\ gil' = allow_threads(acquire_gil(gil, act[d][g].th, <<d, g>>), act[d][g].th)
  /\ UNCHANGED <<df, other, call, result>>

\* a pool thread takes the closure run of group g
Start(d, g, th) ==
  /\ frame[d].phase = "released"
  /\ g \in DOMAIN act[d]
  /\ act[d][g].pc = "todo"
  /\ CanRun(th, d)
  /\ act' = [act EXCEPT ![d][g].pc = "acquire", ![d][g].th = th]
  /\ UNCHANGED <<df, other, call, result, gil, frame>>

\* lines 576-588: the closure takes the lock, wraps its table and calls the lambda
Acquire(d, g) ==
  /\ g \in DOMAIN act[d]
  /\ act[d][g].pc = "acquire"
  /\ acquire_gil_ready(gil, act[d][g].th)
  /\ gil' = acquire_gil(gil, act[d][g].th, <<d, g>>)
  /\ act' = [act EXCEPT ![d][g] =
               [@ EXCEPT !.pc = "in_f", !.nested = HeldBy(gil, act[d][g].th),
                         !.calls = @ + 1,
                         !.arg = GroupTable(frame[d].tbl, frame[d].groups[g])]]
  /\ UNCHANGED <<df, other, call, result, frame>>

FName(g) == "f" \o ToString(g)

\* lines 589, 593-599: the lambda returns a DataFrame; the closure returns it
FReturn(d, g) ==
  /\ g \in DOMAIN act[d]
  /\ act[d][g].pc = "in_f"
  /\ \E out \in FOuts(act[d][g].arg) :
       act' = [act EXCEPT ![d][g] =
                 [@ EXCEPT !.pc = "done", !.fout = out,
                           !.ret = function_result(act[d][g].arg, out)]]
  /\ gil' = drop_gil(gil, act[d][g].nested)
  /\ frame' = [frame EXCEPT ![d].log = Append(@, Step(FName(g), TRUE))]
  /\ UNCHANGED <<df, other, call, result>>

\* the closure unwinds with msg: its lock guard is dropped on the way
Unwind(d, g, msg) ==
  /\ g \in DOMAIN act[d]
  /\ act[d][g].pc = "in_f"
  /\ act' = [act EXCEPT ![d][g] = [@ EXCEPT !.pc = "panicked", !.msg = msg]]
  /\ gil' = drop_gil(gil, act[d][g].nested)
  /\ frame' = [frame EXCEPT ![d].log = Append(@, Step(FName(g), FALSE))]
  /\ UNCHANGED <<df, other, call, result>>

\* line 590: the lambda raises
FRaise(d, g) == Unwind(d, g, "UDF failed")

\* lines 593-597: what the lambda returned is no DataFrame wrapper
FNotFrame(d, g) == Unwind(d, g, "Could net get DataFrame attribute '_df'")

\* after a closure run has panicked the pool may drop runs not yet started
Skip(d, g) ==
  /\ frame[d].phase = "released"
  /\ g \in DOMAIN act[d]
  /\ act[d][g].pc = "todo"
  /\ \E k \in DOMAIN act[d] : act[d][k].pc = "panicked"
  /\ act' = [act EXCEPT ![d][g].pc = "skipped"]
  /\ UNCHANGED <<df, other, call, result, gil, frame>>

\* what the finished apply gives: a panic of a closure run goes on unwinding
\* in the caller; otherwise the stacked results, or the stacking error
ApplyOutcomes(d) ==
  LET panicked == {g \in DOMAIN act[d] : act[d][g].pc = "panicked"}
      r == GroupBy_apply_collect([g \in DOMAIN act[d] |-> act[d][g].ret])
      log == Append(frame[d].log, Step("vstack", r.ok))
  IN IF panicked # {}
     THEN {[kind |-> "Panic", err |-> act[d][g].msg, val |-> Unit, steps |-> frame[d].log]
             : g \in panicked}
     ELSE IF r.ok THEN {[kind |-> "Ok", err |-> "", val |-> r.df, steps |-> log]}
     ELSE {[kind |-> "Err", err |-> r.err, val |-> Unit, steps |-> log]}

\* line 604-605: every closure run is over; allow_threads takes the lock back
\* for the caller and groupby_apply returns
ApplyDone(d) ==
  /\ frame[d].phase = "released"
  /\ \A g \in DOMAIN act[d] : Terminal(act[d][g])
  /\ gil = {}
  /\ gil' = {Holder(frame[d].caller, frame[d].parent)}
  /\ IF d = 0
     THEN /\ \E out \in ApplyOutcomes(d) : result' = out
          /\ frame' = [frame EXCEPT ![d].phase = "returned"]
          /\ act' = act
     ELSE /\ result' = result
          /\ frame' = [frame EXCEPT ![d] = IdleFrame]
          /\ act' = [act EXCEPT ![d] = <<>>,
                                ![frame[d].parent[1]][frame[d].parent[2]].pc = "in_f"]
  /\ UNCHANGED <<df, other, call>>

\* the caller has taken the result; the receiver is ready for the next call
Return ==
  /\ call # NoCall
  /\ result.kind # "Running"
  /\ call' = NoCall
  /\ result' = NoResult
  /\ frame' = [d \in Frames |-> IdleFrame]
  /\ act' = [d \in Frames |-> <<>>]
  /\ UNCHANGED <<df, other, gil>>

Init ==
  /\ df \in InitTables
  /\ other \in OtherTables
  /\ call = NoCall
  /\ result = NoResult
  /\ gil = {Holder(MainThread, <<>>)}
  /\ frame = [d \in Frames |-> IdleFrame]
  /\ act = [d \in Frames |-> <<>>]

Next ==
  \/ Call_rechunk \/ Call_hstack_mut \/ Call_hstack \/ Call_vstack_mut \/ Call_vstack
  \/ Call_drop_in_place \/ Call_drop \/ Call_drop_nulls \/ Call_select \/ Call_filter
  \/ Call_take \/ Call_take_with_series \/ Call_sort \/ Call_sort_in_place
  \/ Call_replace \/ Call_replace_at_idx \/ Call_insert_at_idx \/ Call_set_column_names
  \/ Call_slice \/ Call_head \/ Call_tail \/ Call_clone \/ Call_melt
  \/ Call_add \/ Call_is_unique \/ Call_is_duplicated \/ Call_fill_none \/ Call_join
  \/ Call_downsample \/ Call_groupby \/ Call_pivot
  \/ Return

Spec == Init /\ [][Next]_vars

\* the tables groupby_apply is tried on: a key column "a" and a column "b"
\* that numbers the rows
ApplyTables ==
  {<<Col("a", "Int", k), Col("b", "Int", [i \in DOMAIN k |-> i])>> :
     k \in SeqsUpTo(Vals, MaxHeight)}

InitApply ==
  /\ df \in ApplyTables
  /\ other \in OtherTables
  /\ call = NoCall
  /\ result = NoResult
  /\ gil = {Holder(MainThread, <<>>)}
  /\ frame = [d \in Frames |-> IdleFrame]
  /\ act = [d \in Frames |-> <<>>]

NextApply ==
  \/ Call_groupby_apply
  \/ \E d \in Frames : \E g \in 1..MaxHeight :
       \/ FReenter(d, g)
       \/ \E th \in Workers : Start(d, g, th)
       \/ Acquire(d, g)
       \/ FReturn(d, g)
       \/ FRaise(d, g)
       \/ FNotFrame(d, g)
       \/ Skip(d, g)
  \/ \E d \in Frames : ApplyDone(d)
  \/ Return

SpecApply == InitApply /\ [][NextApply]_vars

\* the lambda of group g in frame d ends, by returning or by raising
FEnd(d, g) == FReturn(d, g) \/ FRaise(d, g) \/ FNotFrame(d, g)

\* while closures are waiting for a thread, the pool starts one; while threads
\* are waiting for the free interpreter lock, one gets it; at each depth the
\* invocations of the lambda end, however often they have called
\* groupby_apply themselves; a finished apply returns
FairApply ==
  /\ WF_vars(\E d \in Frames : ApplyDone(d))
  /\ WF_vars(\E d \in Frames : \E g \in 1..MaxHeight : \E th \in Workers : Start(d, g, th))
  /\ WF_vars(\E d \in Frames : \E g \in 1..MaxHeight : Acquire(d, g))
  /\ \A d \in Frames : SF_vars(\E g \in 1..MaxHeight : FEnd(d, g))

SpecApplyFair == SpecApply /\ FairApply

----------------------------------------------------------------------------
(* Properties *)

\* C1, as stated: within one groupby_apply the invocation of f for one group
\* has completed or failed before the invocation for another group begins:
\* at most one group of a frame has an invocation begun and not yet over.
C1_OneGroupAtATime ==
  \A d \in Frames :
    Cardinality({g \in DOMAIN act[d] : act[d][g].pc \in {"in_f", "nested"}}) <= 1

\* C1, amended: at any moment at most one invocation of f is executing, over
\* all groups, frames and worker threads; an invocation that has given up the
\* interpreter lock (f inside its own groupby_apply) is not executing.
C1_OneExecuting ==
  Cardinality({dg \in Frames \X (1..MaxHeight) :
                 /\ dg[2] \in DOMAIN act[dg[1]]
                 /\ act[dg[1]][dg[2]].pc = "in_f"}) <= 1

\* one group's f is executing while another worker waits for the lock
C1_Witness ==
  \E g \in DOMAIN act[0], k \in DOMAIN act[0] :
    /\ act[0][g].pc = "in_f"
    /\ act[0][k].pc = "acquire"
    /\ act[0][k].th # act[0][g].th

\* C2: while a groupby_apply has its closures running, its calling thread does
\* not hold the interpreter lock it held at the call, at depth 0 and in a
\* groupby_apply made by f; an invocation of f runs under the lock its own
\* closure took, never under the caller's.
C2_LockReleased ==
  \A d \in Frames :
    /\ frame[d].phase = "released" => Holder(frame[d].caller, frame[d].parent) \notin gil
    /\ \A g \in DOMAIN act[d] :
         act[d][g].pc = "in_f" => gil = {Holder(act[d][g].th, <<d, g>>)}

\* f is executing inside the groupby_apply that another f made
C2_Witness ==
  /\ frame[1].phase = "released"
  /\ \E g \in DOMAIN act[1] : act[1][g].pc = "in_f"

\* C3: a successful groupby_apply has called f exactly once per group, each
\* time with exactly the rows of one key, in ascending row order; the groups
\* are in the order of the first row of each key and cover every row; the
\* result is the returned tables one after the other in that order.
C3_OncePerGroup ==
  (call.op = "groupby_apply" /\ result.kind = "Ok") =>
    LET key == df[find_idx_by_name(df, call.arg[1])].vals
        rowid == df[find_idx_by_name(df, "b")].vals
        a == act[0]
        n == Len(a)
        ka(g) == a[g].arg[find_idx_by_name(df, call.arg[1])].vals
        ra(g) == a[g].arg[find_idx_by_name(df, "b")].vals
    IN /\ \A g \in 1..n :
            /\ a[g].calls = 1
            /\ Len(a[g].arg) = Len(df)
            /\ ra(g) # <<>>
            /\ \A i \in DOMAIN ra(g) : ka(g)[i] = key[ra(g)[i]] /\ ka(g)[i] = ka(g)[1]
            /\ \A i \in DOMAIN ra(g) : \A j \in DOMAIN ra(g) : i < j => ra(g)[i] < ra(g)[j]
            /\ {i \in DOMAIN key : key[i] = ka(g)[1]} = Range(ra(g))
       /\ \A g \in 1..n : \A h \in 1..n :
            g < h => ka(g)[1] # ka(h)[1] /\ ra(g)[1] < ra(h)[1]
       /\ \A i \in DOMAIN key : \E g \in 1..n : rowid[i] \in Range(ra(g))
       /\ n = 0 => result.val = <<>>
       /\ n > 0 =>
            /\ Len(result.val) = Len(a[1].fout)
            /\ \A c \in DOMAIN result.val :
                 /\ result.val[c].name = a[1].fout[c].name
                 /\ result.val[c].vals = Concat([g \in 1..n |-> a[g].fout[c].vals])

\* two groups, and f gave back something else than it was given
C3_Witness ==
  /\ call.op = "groupby_apply"
  /\ result.kind = "Ok"
  /\ Len(act[0]) = 2
  /\ \E g \in DOMAIN act[0] : act[0][g].fout # act[0][g].arg

\* C4: when f has raised for a group, groupby_apply returns the error
\* CallbackFailed to its caller.
C4_CallbackFailed ==
  (/\ call.op = "groupby_apply"
   /\ frame[0].phase = "returned"
   /\ \E g \in DOMAIN act[0] : act[0][g].pc = "panicked" /\ act[0][g].msg = "UDF failed")
  => (result.kind = "Err" /\ result.err = "CallbackFailed")

\* C5: a call whose mode (how, strategy, rule, agg) is outside the operator's
\* enumeration returns an error to the caller.
C5_UnknownModeIsError ==
  (\/ call.op = "join" /\ call.arg[3] \notin Hows
   \/ call.op = "fill_none" /\ call.arg[1] \notin Strategies
   \/ call.op = "downsample" /\ (call.arg[2] \notin Rules \/ call.arg[4] \notin GroupByAggs)
   \/ call.op = "groupby" /\ call.arg[3] \notin GroupByAggs
   \/ call.op = "pivot" /\ call.arg[4] \notin PivotAggs)
  => result.kind = "Err"

\* C6: no row is marked both by is_unique and by is_duplicated.
C6_Exclusive ==
  call.op = "is_duplicated" =>
    \A i \in 1..height(df) :
      ~(result.val.vals[i] = 1 /\ is_unique(df).val.vals[i] = 1)

C8_EqualHeights ==
  [][/\ EqualHeights(df')
     /\ (/\ call = NoCall
         /\ call'.op = "hstack_mut"
         /\ Len(call'.arg[1].vals) # height(df))
        => (result'.kind = "Err" /\ result'.err = "LengthMismatch" /\ df' = df)]_vars

\* hstack_mut refused a column on a receiver that has columns
C8_Witness ==
  /\ call.op = "hstack_mut"
  /\ result.kind = "Err"
  /\ result.err = "LengthMismatch"
  /\ width(df) = MaxWidth
  /\ height(df) > 0

\* C9: a composite operator that failed in a sub-step returns an error, and
\* the failed sub-step is the last one it ran.
C9_FirstFailure ==
  (/\ call.op \in {"pivot", "downsample", "groupby_apply"}
   /\ result.kind # "Running"
   /\ \E i \in DOMAIN result.steps : ~result.steps[i].ok)
  => /\ result.kind = "Err"
     /\ \A i \in DOMAIN result.steps : ~result.steps[i].ok => i = Len(result.steps)

\* C10: take with an index at or beyond the height returns the error
\* IndexOutOfBounds to the caller.
C10_TakeOutOfBounds ==
  (\/ /\ call.op = "take"
      /\ \E k \in DOMAIN call.arg[1] : call.arg[1][k] >= height(df)
   \/ /\ call.op = "take_with_series"
      /\ call.arg[1] = "Int"
      /\ \E k \in DOMAIN call.arg[2] : call.arg[2][k] >= height(df))
  => (result.kind = "Err" /\ result.err = "IndexOutOfBounds")

\* C11: filter with a boolean mask as long as the table is high succeeds; the
\* result has as many rows as the mask has true entries, and its k-th row is
\* the row of the table at the k-th true entry of the mask.
C11_FilterRows ==
  (/\ call.op = "filter"
   /\ call.arg[1].dtype = "Bool"
   /\ Len(call.arg[1].vals) = height(df))
  => LET m == call.arg[1].vals
         out == result.val
     IN /\ result.kind = "Ok"
        /\ Len(out) = Len(df)
        /\ \A c \in DOMAIN out :
             /\ out[c].name = df[c].name
             /\ Len(out[c].vals) = Cardinality({i \in DOMAIN m : m[i] = 1})
             /\ \A i \in DOMAIN m :
                  m[i] = 1 =>
                    out[c].vals[Cardinality({j \in 1..i : m[j] = 1})] = df[c].vals[i]

\* a table of full height and a mask that is false and then true
C11_Witness ==
  /\ call.op = "filter"
  /\ result.kind = "Ok"
  /\ width(df) >= 1
  /\ height(df) = MaxHeight
  /\ call.arg[1].vals[1] = 0
  /\ call.arg[1].vals[MaxHeight] = 1
  /\ height(result.val) < height(df)

\* C12: a successful downsample has one row per window of width n * unit that
\* a time of the `by` column falls in, and its `by` column holds the windows'
\* lower boundaries in strictly ascending order.
C12_BucketsAscending ==
  (call.op = "downsample" /\ result.kind = "Ok") =>
    LET by == call.arg[1]
        w == call.arg[3] * UnitSeconds(Capitalised(call.arg[2]))
        times == df[find_idx_by_name(df, by)].vals
        buckets == {(times[i] \div w) * w : i \in DOMAIN times}
        out == result.val
        oc == find_idx_by_name(out, by)
    IN /\ oc # 0
       /\ height(out) = Cardinality(buckets)
       /\ Range(out[oc].vals) = buckets
       /\ \A i \in DOMAIN out[oc].vals : \A j \in DOMAIN out[oc].vals :
            i < j => out[oc].vals[i] < out[oc].vals[j]

\* the times are descending in the table, so the grouping meets the later
\* window first, and there is more than one window
C12_Witness ==
  /\ call.op = "downsample"
  /\ result.kind = "Ok"
  /\ height(result.val) >= 2
  /\ LET times == df[find_idx_by_name(df, call.arg[1])].vals
     IN times[1] > times[2]

\* C13: provided every invocation of f ends, a groupby_apply that has begun
\* returns; whenever it has returned, every closure is over, each one that
\* was started having taken the interpreter lock once, run and given it back,
\* and the lock is held by the calling thread, on behalf of the caller, and
\* by no other.
C13_Returns ==
  /\ [](frame[0].phase = "returned" =>
          /\ gil = {Holder(MainThread, <<>>)}
          /\ \A g \in DOMAIN act[0] :
               /\ Terminal(act[0][g])
               /\ act[0][g].pc # "skipped" => act[0][g].calls = 1)
  /\ (result.kind = "Running") ~> (result.kind # "Running")

\* a call over two groups has returned a table, each group's closure having
\* run on its own worker, and the caller holds the lock again
C13_Witness ==
  /\ call.op = "groupby_apply"
  /\ frame[0].phase = "returned"
  /\ result.kind = "Ok"
  /\ Len(act[0]) = 2
  /\ act[0][1].th # act[0][2].th
  /\ gil = {Holder(MainThread, <<>>)}

====
